---- MODULE Spec2Model ----
(***************************************************************************)
(* Model of ngs::SegmentedHeap (NGSEngine/Utils/SegmentedHeap.{h,cpp}),    *)
(* of the region allocator ngs::BasicHeap / ngs::HeapBase it places its    *)
(* segments' allocations with (NGSEngine/Utils/Heap.{h,cpp}) and of the    *)
(* system allocator (std::malloc / std::free) both of them call.           *)
(*                                                                         *)
(* BasicHeap keeps no HeapBase: GetHeapBase() builds a temporary HeapBase  *)
(* for every call, with an empty m_allocations, and the temporary is       *)
(* destroyed at the end of the call.  ~HeapBase frees every block in       *)
(* m_allocations.  The model follows the code in this.                     *)
(***************************************************************************)
EXTENDS Integers, Naturals, Sequences, FiniteSets, Bags, TLC

(***************************************************************************)
(* Bounds of the model.                                                    *)
(***************************************************************************)
\* m_segmentSize, the constructor's argument (bytes)
SegmentSize == 8
\* the system allocator hands out blocks aligned to 4 * AlignFactor bytes
AlignFactor == 4
\* number of MallocAlign-sized chunks of system memory
NChunks == 3
\* the most segments the model lets m_heaps grow to
MaxSegments == 2
\* the most handles the caller holds at a time
MaxLive == 3
\* the most handles the caller holds at a time while it fills a segment
MaxFill == 5
\* the threads that share a RefCounted object
NThreads == 3
\* the most references to the object held at a time
MaxRefs == 3
\* the longest string, in code units, given to BString::Create
MaxLen == 2

MallocAlign == 4 * AlignFactor

\* the null pointer
NULL == 0
\* m_heaps.end(); segments are the positions 1..Len(m_heaps) of the list
END == 0
\* a default-initialised (singular) std::list iterator
SINGULAR == -1

\* the request sizes tried: zero, the largest segment-path size and the
\* smallest fallback size
Sizes == {0, SegmentSize \div 4, SegmentSize \div 4 + 1}

\* the request size used to fill a segment: the largest segment-path size
FillSize == SegmentSize \div 4

VARIABLES
    ndebug,             \* the build: TRUE when assert() is compiled out
    sysmem,             \* blocks outstanding at the system allocator
    m_heaps,            \* SegmentedHeap::m_heaps
    m_currentHeapIter,  \* SegmentedHeap::m_currentHeapIter
    live,               \* bag of the handles returned and not yet passed to Free
    status,             \* "running", or "aborted" once the process has died
    lastOp,             \* the last call and what it returned
    refCounted,         \* a RefCounted object and the references the threads hold
    bstring             \* a BString: its memory block and the string it was made of

vars == <<ndebug, sysmem, m_heaps, m_currentHeapIter, live, status, lastOp, refCounted,
          bstring>>

(***************************************************************************)
(* The system allocator.  A block is [base, size]; it occupies whole       *)
(* chunks.                                                                 *)
(***************************************************************************)
Bases == {k * MallocAlign : k \in 1..NChunks}

MemEnd == (NChunks + 1) * MallocAlign

ChunksFor(size) == IF size = 0 THEN 1 ELSE (size + MallocAlign - 1) \div MallocAlign

BlockEnd(base, size) == base + ChunksFor(size) * MallocAlign

\* the values std::malloc(size) can return: null, or the base of a run of
\* chunks that no outstanding block occupies
Malloc(mem, size) ==
    {NULL} \cup
    {a \in Bases :
        /\ BlockEnd(a, size) <= MemEnd
        /\ \A b \in mem : BlockEnd(b.base, b.size) <= a \/ BlockEnd(a, size) <= b.base}

MallocBlock(base, size) == [base |-> base, size |-> size]

IsOutstanding(mem, p) == \E b \in mem : b.base = p

\* std::free(p) of a block that is outstanding (free(NULL) does nothing)
StdFree(mem, p) == {b \in mem : b.base # p}

(***************************************************************************)
(* HeapBase::Allocate returns the block std::malloc gave it, as it is.     *)
(***************************************************************************)
\* a HeapBase::Allocate that keeps a 2-byte header in front of the block
HeapBaseAllocateHeader(mem, size) ==
    {IF a = NULL THEN NULL ELSE a + 2 : a \in Malloc(mem, size)}

\* void *block = std::malloc(size); ...; return block
HeapBaseAllocate(mem, size) == Malloc(mem, size)

(***************************************************************************)
(* UninitializedMemoryBlock, the storage of a segment.                     *)
(***************************************************************************)
UninitializedMemoryBlock(data, size) == [m_data |-> data, m_size |-> size]

(***************************************************************************)
(* BasicHeap, a segment: its storage and, in initialized, the number of    *)
(* calls of HeapBase::Initialize made for it.                              *)
(***************************************************************************)
\* a constructor that leaves Initialize() to the first use of the segment
BasicHeapLazy(storage) ==
    [m_data |-> storage.m_data, m_size |-> storage.m_size, initialized |-> 0]

\* m_storage{args...}, then GetHeapBase().Initialize()
BasicHeap(storage) ==
    [m_data |-> storage.m_data, m_size |-> storage.m_size, initialized |-> 1]

\* BasicHeap::GetHeapBase: every call builds a new HeapBase over the
\* segment's storage, and a new HeapBase has recorded no allocation
GetHeapBase(heap) ==
    [m_storage |-> heap.m_data, m_size |-> heap.m_size, m_allocations |-> {}]

\* m_allocations.insert(block), whatever block is
HeapBaseInsert(base, block) ==
    [base EXCEPT !.m_allocations = @ \cup {block}]

\* HeapBase::~HeapBase: std::free of every recorded block
HeapBaseDestroy(mem, base) == {b \in mem : b.base \notin base.m_allocations}

\* m_heaps.emplace_back(m_segmentSize)
EmplaceBack(heaps, data) ==
    Append(heaps, BasicHeap(UninitializedMemoryBlock(data, SegmentSize)))

(***************************************************************************)
(* Handles.  size is the size asked for; the C++ handle does not keep it.  *)
(***************************************************************************)
Handle(block, heapIter, size) == [m_block |-> block, m_heapIter |-> heapIter, size |-> size]

NoHandle == Handle(NULL, SINGULAR, 0)

\* what a call did: op and size are the call, res is "handle", "oom" (the
\* ComException), "done" or "abort", path is the branch of the handler taken,
\* probes the segments whose Allocate was called, in order, and created the
\* number of segments the call appended
Op(op, path, size, res, handle, probes, created) ==
    [op |-> op, path |-> path, size |-> size, res |-> res, handle |-> handle,
     probes |-> probes, created |-> created]

\* the threshold test with the quarter itself sent to the system allocator
IsFallbackSizeInclusive(blockSize) == blockSize >= SegmentSize \div 4

\* blockSize > m_segmentSize / 4
IsFallbackSize(blockSize) == blockSize > SegmentSize \div 4

\* an advance that does not wrap at m_heaps.end()
NextIterNoWrap(it, n) == it + 1

\* ++m_currentHeapIter; if it is m_heaps.end(), m_heaps.begin()
NextIter(it, n) == IF it + 1 > n THEN 1 ELSE it + 1

\* the segments that k probes starting at segment it visit
RECURSIVE ProbeSeq(_, _, _)
ProbeSeq(it, k, n) ==
    IF k = 0 THEN <<>> ELSE <<it>> \o ProbeSeq(NextIter(it, n), k - 1, n)

\* a probe loop that starts at m_heaps.begin() on every call
FirstIterBegin(cur) == 1

\* auto firstIter = m_currentHeapIter
FirstIter(cur) == cur

\* an end() that is the position after the last segment, as the end of a
\* vector is
EndIterPastLast(heaps) == Len(heaps) + 1

\* m_heaps.end(): the end of a std::list is the same iterator however many
\* segments the list has
EndIter(heaps) == END

\* a Free that moves the cursor to the handle's iterator on both branches
CursorAfterFreeAlways(heaps, cur, handle) == handle.m_heapIter

\* m_currentHeapIter after SegmentedHeap::Free: the else branch assigns it
CursorAfterFree(heaps, cur, handle) ==
    IF handle.m_heapIter = EndIter(heaps) THEN cur ELSE handle.m_heapIter

\* a Free that destroys the last segment when it frees a segment's block
HeapsAfterFreeReclaim(heaps, handle) ==
    IF handle.m_heapIter = END \/ heaps = <<>> THEN heaps
    ELSE SubSeq(heaps, 1, Len(heaps) - 1)

\* m_heaps after SegmentedHeap::Free: the handler does not touch the list
HeapsAfterFree(heaps, handle) == heaps

(***************************************************************************)
(* RefCounted.  m_refCount is a std::atomic<std::int32_t>; held[t] is the  *)
(* number of references thread t owns, pc[t] is "delete" between the       *)
(* decrement that returned 0 in thread t and its delete this, deleted      *)
(* counts the runs of the destructor, and touched tells that m_refCount    *)
(* was accessed after the destructor ran.                                  *)
(***************************************************************************)
Threads == 1..NThreads

\* the largest and the smallest std::int32_t
Int32Max == 2147483647

Int32Min == -Int32Max - 1

\* RefCounted::RefCounted() : m_refCount{ 1 }; the constructing thread,
\* thread 1, owns the reference
RefCountedNew ==
    [m_refCount |-> 1,
     held |-> [t \in Threads |-> IF t = 1 THEN 1 ELSE 0],
     pc |-> [t \in Threads |-> "idle"],
     deleted |-> 0,
     touched |-> FALSE]

\* ++m_refCount
AtomicIncrement(count) == IF count = Int32Max THEN Int32Min ELSE count + 1

\* --m_refCount
AtomicDecrement(count) == IF count = Int32Min THEN Int32Max ELSE count - 1

\* a test of the count as it was before the decrement: (m_refCount--) == 0
ReleaseSeesZeroPost(count) == count = 0

\* (--m_refCount) == 0, count being m_refCount before the decrement
ReleaseSeesZero(count) == AtomicDecrement(count) = 0

(***************************************************************************)
(* BString (the code that is compiled where WIN32 is not defined).  The    *)
(* memory block is a sequence of char16_t units: units 1 and 2 are the     *)
(* std::uint32_t prefix, low half first, the data starts at unit 3.        *)
(***************************************************************************)
\* the code units strings are made of
CodeUnits == {0, 97, 98}

\* the U16StringViews given to Create
Strings == UNION {[1..n -> CodeUnits] : n \in 0..MaxLen}

\* the two char16_t units of a std::uint32_t
Uint32Units(v) == <<v % 65536, v \div 65536>>

\* the std::uint32_t that two char16_t units hold
Uint32Value(units) == units[1] + units[2] * 65536

\* no BString
NoBString == [mem |-> NULL, units |-> <<>>, str |-> <<>>]

\* std::malloc(length * 2 + 6)
BStringBlockSize(length) == length * 2 + 6

\* static_cast<std::uint32_t>(length * 2), the value Allocate stores in the
\* prefix
BStringPrefix(length) == length * 2

\* the block BString::Allocate(length) leaves at mem: the prefix, length
\* units that malloc left as they were (data), and the terminator
BStringAllocate(length, data) == Uint32Units(BStringPrefix(length)) \o data \o <<0>>

\* std::copy(str.begin(), str.end(), ret->GetData())
BStringCopy(units, str) ==
    [i \in 1..Len(units) |->
        IF i - 2 \in 1..Len(str) THEN str[i - 2] ELSE units[i]]

\* GetLength(): the std::uint32_t at GetMemoryBlock()
GetLength(b) == Uint32Value(SubSeq(b.units, 1, 2))

\* the views GetView() can return, { GetData(), GetLength() }: a code unit
\* inside the block is the block's, one past its end is whatever is there
GetView(b) ==
    {v \in [1..GetLength(b) -> CodeUnits] :
        \A i \in 1..GetLength(b) : i + 2 <= Len(b.units) => v[i] = b.units[i + 2]}

\* GetView() reads past the end of the memory block
ViewOverrunsBlock(b) == GetLength(b) + 2 > Len(b.units)

Init ==
    /\ ndebug \in BOOLEAN
    /\ sysmem = {}
    /\ m_heaps = <<>>
    /\ m_currentHeapIter = SINGULAR
    /\ live = EmptyBag
    /\ status = "running"
    /\ lastOp = Op("none", "none", 0, "none", NoHandle, <<>>, 0)
    /\ refCounted = RefCountedNew
    /\ bstring = NoBString

CanCall == status = "running"

\* the caller holds fewer than limit handles
Room(limit) == BagCardinality(live) < limit

(***************************************************************************)
(* SegmentedHeap::Allocate, fallback path: the block comes from            *)
(* std::malloc and the handle carries m_heaps.end().                       *)
(***************************************************************************)
AllocateFallback(size) ==
    /\ CanCall
    /\ IsFallbackSize(size)
    /\ \E block \in Malloc(sysmem, size) \ {NULL} :
        /\ sysmem' = sysmem \cup {MallocBlock(block, size)}
        /\ live' = live (+) SetToBag({Handle(block, EndIter(m_heaps), size)})
        /\ lastOp' = Op("Allocate", "fallback", size, "handle",
                        Handle(block, EndIter(m_heaps), size), <<>>, 0)
    /\ UNCHANGED <<bstring, refCounted, ndebug, m_heaps, m_currentHeapIter, status>>

AllocateFallbackOOM(size) ==
    /\ CanCall
    /\ IsFallbackSize(size)
    /\ NULL \in Malloc(sysmem, size)
    /\ lastOp' = Op("Allocate", "fallback", size, "oom", NoHandle, <<>>, 0)
    /\ UNCHANGED <<bstring, refCounted, ndebug, sysmem, m_heaps, m_currentHeapIter, live, status>>

(***************************************************************************)
(* SegmentedHeap::Allocate, segment path.  FirstSegment is the set of      *)
(* states the handler can be in when it reaches the probe loop: m_heaps    *)
(* as is, or with the first segment just created.                          *)
(***************************************************************************)
FirstSegment ==
    IF m_heaps # <<>>
    THEN {[heaps |-> m_heaps, mem |-> sysmem, cur |-> m_currentHeapIter, created |-> 0]}
    ELSE {[heaps |-> EmplaceBack(m_heaps, data),
           mem |-> sysmem \cup {MallocBlock(data, SegmentSize)},
           cur |-> 1, created |-> 1] :
            data \in Malloc(sysmem, SegmentSize) \ {NULL}}

\* m_heaps is empty and the storage of the first segment cannot be allocated
AllocateFirstSegmentOOM(size) ==
    /\ CanCall
    /\ ~IsFallbackSize(size)
    /\ m_heaps = <<>>
    /\ NULL \in Malloc(sysmem, SegmentSize)
    /\ lastOp' = Op("Allocate", "create", size, "oom", NoHandle, <<>>, 0)
    /\ UNCHANGED <<bstring, refCounted, ndebug, sysmem, m_heaps, m_currentHeapIter, live, status>>

\* k probes return null, the next one returns a block.  HeapBase::Allocate
\* asserts the block, so a null is survived only when assert is compiled
\* out.  The temporary HeapBase records the block; its destructor frees it.
AllocateProbe(size) ==
    /\ CanCall
    /\ ~IsFallbackSize(size)
    /\ \E s \in FirstSegment :
       LET n == Len(s.heaps)
           first == FirstIter(s.cur)
       IN \E k \in 0..(n - 1) :
            /\ k > 0 => (ndebug /\ NULL \in HeapBaseAllocate(s.mem, size))
            /\ \E block \in HeapBaseAllocate(s.mem, size) \ {NULL} :
               LET probes == ProbeSeq(first, k + 1, n)
                   it == probes[k + 1]
                   allocated == s.mem \cup {MallocBlock(block, size)}
                   base == HeapBaseInsert(GetHeapBase(s.heaps[it]), block)
               IN /\ sysmem' = HeapBaseDestroy(allocated, base)
                  /\ m_heaps' = s.heaps
                  /\ m_currentHeapIter' = it
                  /\ live' = live (+) SetToBag({Handle(block, it, size)})
                  /\ lastOp' = Op("Allocate", "probe", size, "handle", Handle(block, it, size),
                                  probes, s.created)
    /\ UNCHANGED <<bstring, refCounted, ndebug, status>>

\* std::malloc returns null in HeapBase::Allocate and assert(block) fires
AllocateAssert(size) ==
    /\ CanCall
    /\ ~IsFallbackSize(size)
    /\ ~ndebug
    /\ \E s \in FirstSegment :
        /\ NULL \in HeapBaseAllocate(s.mem, size)
        /\ sysmem' = s.mem
        /\ m_heaps' = s.heaps
        /\ m_currentHeapIter' = s.cur
        /\ lastOp' = Op("Allocate", "probe", size, "abort", NoHandle,
                        ProbeSeq(FirstIter(s.cur), 1, Len(s.heaps)), s.created)
    /\ status' = "aborted"
    /\ UNCHANGED <<bstring, refCounted, ndebug, live>>

\* every segment returned null: a segment is appended, m_currentHeapIter is
\* set to m_heaps.begin() and the block is allocated there
AllocateGrow(size) ==
    /\ CanCall
    /\ ~IsFallbackSize(size)
    /\ ndebug
    /\ \E s \in FirstSegment :
       LET n == Len(s.heaps)
           probes == ProbeSeq(FirstIter(s.cur), n, n)
       IN /\ n < MaxSegments
          /\ NULL \in HeapBaseAllocate(s.mem, size)
          /\ \E data \in Malloc(s.mem, SegmentSize) \ {NULL} :
             LET heaps == EmplaceBack(s.heaps, data)
                 mem == s.mem \cup {MallocBlock(data, SegmentSize)}
                 it == 1
             IN \E block \in HeapBaseAllocate(mem, size) :
                  /\ sysmem' = HeapBaseDestroy(
                                    mem \cup (IF block = NULL THEN {}
                                              ELSE {MallocBlock(block, size)}),
                                    HeapBaseInsert(GetHeapBase(heaps[it]), block))
                  /\ m_heaps' = heaps
                  /\ m_currentHeapIter' = it
                  /\ live' = live (+) SetToBag({Handle(block, it, size)})
                  /\ lastOp' = Op("Allocate", "grow", size, "handle", Handle(block, it, size),
                                  probes \o <<it>>, s.created + 1)
    /\ UNCHANGED <<bstring, refCounted, ndebug, status>>

\* every segment returned null and the new segment cannot be created
AllocateGrowOOM(size) ==
    /\ CanCall
    /\ ~IsFallbackSize(size)
    /\ ndebug
    /\ \E s \in FirstSegment :
       LET n == Len(s.heaps)
           probes == ProbeSeq(FirstIter(s.cur), n, n)
       IN /\ NULL \in HeapBaseAllocate(s.mem, size)
          /\ NULL \in Malloc(s.mem, SegmentSize)
          /\ sysmem' = s.mem
          /\ m_heaps' = s.heaps
          /\ m_currentHeapIter' = NextIter(probes[n], n)
          /\ lastOp' = Op("Allocate", "grow", size, "oom", NoHandle, probes, s.created)
    /\ UNCHANGED <<bstring, refCounted, ndebug, live, status>>

(***************************************************************************)
(* SegmentedHeap::Free.                                                    *)
(***************************************************************************)
\* a fallback handle whose block is outstanding
FreeFallback(handle) ==
    /\ CanCall
    /\ BagIn(handle, live)
    /\ handle.m_heapIter = EndIter(m_heaps)
    /\ IsOutstanding(sysmem, handle.m_block)
    /\ sysmem' = StdFree(sysmem, handle.m_block)
    /\ live' = live (-) SetToBag({handle})
    /\ m_heaps' = HeapsAfterFree(m_heaps, handle)
    /\ m_currentHeapIter' = CursorAfterFree(m_heaps, m_currentHeapIter, handle)
    /\ lastOp' = Op("Free", "fallback", handle.size, "done", handle, <<>>, 0)
    /\ UNCHANGED <<bstring, refCounted, ndebug, status>>

\* a fallback handle whose block has been released already: std::free of
\* it is undefined; the process dies or goes on
FreeFallbackReleased(handle) ==
    /\ CanCall
    /\ BagIn(handle, live)
    /\ handle.m_heapIter = EndIter(m_heaps)
    /\ ~IsOutstanding(sysmem, handle.m_block)
    /\ live' = live (-) SetToBag({handle})
    /\ m_heaps' = HeapsAfterFree(m_heaps, handle)
    /\ \E res \in {"done", "abort"} :
        /\ status' = IF res = "abort" THEN "aborted" ELSE status
        /\ m_currentHeapIter' = IF res = "abort" THEN m_currentHeapIter
                                ELSE CursorAfterFree(m_heaps, m_currentHeapIter, handle)
        /\ lastOp' = Op("Free", "fallback", handle.size, res, handle, <<>>, 0)
    /\ UNCHANGED <<bstring, refCounted, ndebug, sysmem>>

\* a segment handle.  BasicHeap::Free runs HeapBase::Free on a temporary
\* HeapBase whose m_allocations is empty: std::free(region) releases
\* whatever block is outstanding at that address (the handle's own block
\* was freed when Allocate returned), and m_allocations.find(region) is
\* end(), whose erase is undefined; the process dies or goes on
FreeSegment(handle) ==
    /\ CanCall
    /\ BagIn(handle, live)
    /\ handle.m_heapIter # EndIter(m_heaps)
    /\ handle.m_heapIter \in 1..Len(m_heaps)
    /\ live' = live (-) SetToBag({handle})
    /\ m_heaps' = HeapsAfterFree(m_heaps, handle)
    /\ \E res \in {"done", "abort"} :
        /\ res = "abort" =>
            handle.m_block \notin GetHeapBase(m_heaps[handle.m_heapIter]).m_allocations
        /\ \/ sysmem' = StdFree(sysmem, handle.m_block)
           \/ res = "abort" /\ sysmem' = sysmem
        /\ status' = IF res = "abort" THEN "aborted" ELSE status
        /\ m_currentHeapIter' = IF res = "abort" THEN m_currentHeapIter
                                ELSE CursorAfterFree(m_heaps, m_currentHeapIter, handle)
        /\ lastOp' = Op("Free", "segment", handle.size, res, handle, <<>>, 0)
    /\ UNCHANGED <<bstring, refCounted, ndebug>>

Next ==
    \/ \E size \in Sizes : Room(MaxLive) /\ AllocateFallback(size)
    \/ \E size \in Sizes : Room(MaxLive) /\ AllocateFallbackOOM(size)
    \/ \E size \in Sizes : Room(MaxLive) /\ AllocateFirstSegmentOOM(size)
    \/ \E size \in Sizes : Room(MaxLive) /\ AllocateProbe(size)
    \/ \E size \in Sizes : Room(MaxLive) /\ AllocateAssert(size)
    \/ \E size \in Sizes : Room(MaxLive) /\ AllocateGrow(size)
    \/ \E size \in Sizes : Room(MaxLive) /\ AllocateGrowOOM(size)
    \/ \E handle \in BagToSet(live) : FreeFallback(handle)
    \/ \E handle \in BagToSet(live) : FreeFallbackReleased(handle)
    \/ \E handle \in BagToSet(live) : FreeSegment(handle)

Spec == Init /\ [][Next]_vars

(***************************************************************************)
(* The caller fills the heap with requests of FillSize bytes and frees     *)
(* none of them.                                                           *)
(***************************************************************************)
NextFill ==
    \/ Room(MaxFill) /\ AllocateFirstSegmentOOM(FillSize)
    \/ Room(MaxFill) /\ AllocateProbe(FillSize)
    \/ Room(MaxFill) /\ AllocateAssert(FillSize)
    \/ Room(MaxFill) /\ AllocateGrow(FillSize)
    \/ Room(MaxFill) /\ AllocateGrowOOM(FillSize)

SpecFill == Init /\ [][NextFill]_vars

(***************************************************************************)
(* SegmentedHeap::Handle::Dereference and operator*.                       *)
(***************************************************************************)
\* a Dereference that returns the address after the block's first byte
DereferenceNext(handle) == handle.m_block + 1

\* void *Dereference() const { return m_block; }
Dereference(handle) == handle.m_block

\* a call of Dereference and the pointer it returned
DereferenceOp(handle, value) ==
    [op |-> "Dereference", path |-> "read", size |-> handle.size, res |-> "pointer",
     handle |-> handle, probes |-> <<>>, created |-> 0, value |-> value]

DereferenceHandle(handle) ==
    /\ CanCall
    /\ BagIn(handle, live)
    /\ lastOp' = DereferenceOp(handle, Dereference(handle))
    /\ UNCHANGED <<bstring, refCounted, ndebug, sysmem, m_heaps, m_currentHeapIter, live, status>>

(***************************************************************************)
(* SegmentedHeap::~SegmentedHeap: m_heaps is destroyed, and with each      *)
(* segment its UninitializedMemoryBlock, whose destructor std::free()s     *)
(* m_data.  A BasicHeap has no destructor of its own.                      *)
(***************************************************************************)
\* the system allocator after the segments of heaps are destroyed, first to
\* last, and the number of m_data that were not outstanding when freed;
\* with stop, the destruction ends at the first of those
RECURSIVE DestroyHeaps(_, _, _)
DestroyHeaps(heaps, mem, stop) ==
    IF heaps = <<>> THEN [mem |-> mem, twice |-> 0]
    ELSE IF IsOutstanding(mem, Head(heaps).m_data)
    THEN DestroyHeaps(Tail(heaps), StdFree(mem, Head(heaps).m_data), stop)
    ELSE IF stop THEN [mem |-> mem, twice |-> 1]
    ELSE LET rest == DestroyHeaps(Tail(heaps), mem, stop)
         IN [mem |-> rest.mem, twice |-> rest.twice + 1]

\* std::free of an m_data that is not outstanding is undefined: the process
\* dies there or goes on.  m_heaps keeps the segments the dead object had.
Destroy ==
    /\ CanCall
    /\ \E res \in {"done", "abort"} :
       LET r == DestroyHeaps(m_heaps, sysmem, res = "abort")
       IN /\ res = "abort" => r.twice > 0
          /\ sysmem' = r.mem
          /\ status' = IF res = "abort" THEN "aborted" ELSE "destroyed"
          /\ lastOp' = Op("Destroy", IF r.twice = 0 THEN "once" ELSE "twice",
                          0, res, NoHandle, <<>>, 0)
    /\ UNCHANGED <<bstring, refCounted, ndebug, m_heaps, m_currentHeapIter, live>>

(***************************************************************************)
(* The life of a SegmentedHeap: calls of Allocate and Free, reads of the   *)
(* handles, and the destructor at the end.                                 *)
(***************************************************************************)
NextLife ==
    \/ \E size \in Sizes : Room(MaxLive - 1) /\ AllocateFallback(size)
    \/ \E size \in Sizes : Room(MaxLive - 1) /\ AllocateFallbackOOM(size)
    \/ \E size \in Sizes : Room(MaxLive - 1) /\ AllocateFirstSegmentOOM(size)
    \/ \E size \in Sizes : Room(MaxLive - 1) /\ AllocateProbe(size)
    \/ \E size \in Sizes : Room(MaxLive - 1) /\ AllocateAssert(size)
    \/ \E size \in Sizes : Room(MaxLive - 1) /\ AllocateGrow(size)
    \/ \E size \in Sizes : Room(MaxLive - 1) /\ AllocateGrowOOM(size)
    \/ \E handle \in BagToSet(live) : FreeFallback(handle)
    \/ \E handle \in BagToSet(live) : FreeFallbackReleased(handle)
    \/ \E handle \in BagToSet(live) : FreeSegment(handle)
    \/ \E handle \in BagToSet(live) : DereferenceHandle(handle)
    \/ Destroy

SpecLife == Init /\ [][NextLife]_vars

(***************************************************************************)
(* A Heap (BasicHeap<UninitializedMemoryBlock>) used on its own: one       *)
(* region of SegmentSize bytes, held in m_heaps[1]; live holds the blocks  *)
(* returned by Allocate and not yet passed to Free.                        *)
(***************************************************************************)
\* the request sizes tried on the region: zero, a small size, the whole
\* region and more than the region
RegionSizes == {0, FillSize, SegmentSize, SegmentSize + 1}

\* BasicHeap::BasicHeap: the storage is allocated, then Initialize() runs
\* (it does nothing)
InitRegion ==
    /\ ndebug \in BOOLEAN
    /\ \E data \in Malloc({}, SegmentSize) \ {NULL} :
        /\ sysmem = {MallocBlock(data, SegmentSize)}
        /\ m_heaps = EmplaceBack(<<>>, data)
    /\ m_currentHeapIter = SINGULAR
    /\ live = EmptyBag
    /\ status = "running"
    /\ lastOp = Op("none", "none", 0, "none", NoHandle, <<>>, 0)
    /\ refCounted = RefCountedNew
    /\ bstring = NoBString

\* BasicHeap::Allocate returns a block: the temporary HeapBase records it
\* and its destructor frees it
HeapAllocate(size) ==
    /\ CanCall
    /\ \E block \in HeapBaseAllocate(sysmem, size) \ {NULL} :
        /\ sysmem' = HeapBaseDestroy(sysmem \cup {MallocBlock(block, size)},
                                     HeapBaseInsert(GetHeapBase(m_heaps[1]), block))
        /\ live' = live (+) SetToBag({Handle(block, 1, size)})
        /\ lastOp' = Op("HeapAllocate", "region", size, "block", Handle(block, 1, size),
                        <<1>>, 0)
    /\ UNCHANGED <<bstring, refCounted, ndebug, m_heaps, m_currentHeapIter, status>>

\* std::malloc returns null and assert is compiled out: the null is
\* recorded in the temporary's m_allocations and returned
HeapAllocateNull(size) ==
    /\ CanCall
    /\ ndebug
    /\ NULL \in HeapBaseAllocate(sysmem, size)
    /\ sysmem' = HeapBaseDestroy(sysmem, HeapBaseInsert(GetHeapBase(m_heaps[1]), NULL))
    /\ lastOp' = Op("HeapAllocate", "region", size, "null", Handle(NULL, 1, size), <<1>>, 0)
    /\ UNCHANGED <<bstring, refCounted, ndebug, m_heaps, m_currentHeapIter, live, status>>

\* std::malloc returns null and assert(block) fires
HeapAllocateAssert(size) ==
    /\ CanCall
    /\ ~ndebug
    /\ NULL \in HeapBaseAllocate(sysmem, size)
    /\ status' = "aborted"
    /\ lastOp' = Op("HeapAllocate", "region", size, "abort", NoHandle, <<1>>, 0)
    /\ UNCHANGED <<bstring, refCounted, ndebug, sysmem, m_heaps, m_currentHeapIter, live>>

\* BasicHeap::Free: HeapBase::Free on a temporary with an empty record
\* (see FreeSegment)
HeapFree(handle) ==
    /\ CanCall
    /\ BagIn(handle, live)
    /\ live' = live (-) SetToBag({handle})
    /\ \E res \in {"done", "abort"} :
        /\ res = "abort" => handle.m_block \notin GetHeapBase(m_heaps[1]).m_allocations
        /\ \/ sysmem' = StdFree(sysmem, handle.m_block)
           \/ res = "abort" /\ sysmem' = sysmem
        /\ status' = IF res = "abort" THEN "aborted" ELSE status
        /\ lastOp' = Op("HeapFree", "region", handle.size, res, handle, <<>>, 0)
    /\ UNCHANGED <<bstring, refCounted, ndebug, m_heaps, m_currentHeapIter>>

NextRegion ==
    \/ \E size \in RegionSizes : Room(MaxLive) /\ HeapAllocate(size)
    \/ \E size \in RegionSizes : Room(MaxLive) /\ HeapAllocateNull(size)
    \/ \E size \in RegionSizes : Room(MaxLive) /\ HeapAllocateAssert(size)
    \/ \E handle \in BagToSet(live) : HeapFree(handle)

SpecRegion == InitRegion /\ [][NextRegion]_vars

(***************************************************************************)
(* Threads that share one RefCounted object.  A thread calls AddRef and    *)
(* Release only through a reference it owns; a reference made by AddRef    *)
(* is kept by the caller or handed to another thread.                      *)
(***************************************************************************)
\* a call of AddRef or Release, or the delete this, by thread t; value is
\* m_refCount after it
RefOp(op, thread, value) == [op |-> op, thread |-> thread, value |-> value]

RefsHeld == refCounted.held

RECURSIVE SumHeld(_, _)
SumHeld(held, n) == IF n = 0 THEN 0 ELSE held[n] + SumHeld(held, n - 1)

\* thread t calls AddRef and gives the new reference to thread u
AddRef(t, u) ==
    /\ RefsHeld[t] >= 1
    /\ SumHeld(RefsHeld, NThreads) < MaxRefs
    /\ refCounted' = [refCounted EXCEPT
            !.m_refCount = AtomicIncrement(@),
            !.held[u] = @ + 1,
            !.touched = @ \/ refCounted.deleted > 0]
    /\ lastOp' = RefOp("AddRef", t, refCounted'.m_refCount)
    /\ UNCHANGED <<bstring, ndebug, sysmem, m_heaps, m_currentHeapIter, live, status>>

\* thread t calls Release on a reference it owns: the decrement, and the
\* test of its result
Release(t) ==
    /\ RefsHeld[t] >= 1
    /\ refCounted' = [refCounted EXCEPT
            !.m_refCount = AtomicDecrement(@),
            !.held[t] = @ - 1,
            !.pc[t] = IF ReleaseSeesZero(refCounted.m_refCount) THEN "delete" ELSE "idle",
            !.touched = @ \/ refCounted.deleted > 0]
    /\ lastOp' = RefOp("Release", t, refCounted'.m_refCount)
    /\ UNCHANGED <<bstring, ndebug, sysmem, m_heaps, m_currentHeapIter, live, status>>

\* delete this, in the thread whose decrement returned 0
DeleteThis(t) ==
    /\ refCounted.pc[t] = "delete"
    /\ refCounted' = [refCounted EXCEPT !.pc[t] = "idle", !.deleted = @ + 1]
    /\ lastOp' = RefOp("Delete", t, refCounted.m_refCount)
    /\ UNCHANGED <<bstring, ndebug, sysmem, m_heaps, m_currentHeapIter, live, status>>

NextRef ==
    \/ \E t, u \in Threads : AddRef(t, u)
    \/ \E t \in Threads : Release(t)
    \/ \E t \in Threads : DeleteThis(t)

SpecRef == Init /\ [][NextRef]_vars

(***************************************************************************)
(* One BString at a time: Create, reads of it, and Free.                   *)
(***************************************************************************)
\* a call on the BString, the string given to Create, and what it returned
BStringOp(op, str, res, value) == [op |-> op, str |-> str, res |-> res, value |-> value]

\* BString::Create(str) where std::malloc returns a block: Allocate writes
\* the prefix and the terminator, Create copies str to GetData()
BStringCreate(str) ==
    /\ CanCall
    /\ bstring = NoBString
    /\ Len(str) <= Int32Max
    /\ \E mem \in Malloc(sysmem, BStringBlockSize(Len(str))) \ {NULL} :
       \E data \in [1..Len(str) -> CodeUnits] :
        /\ sysmem' = sysmem \cup {MallocBlock(mem, BStringBlockSize(Len(str)))}
        /\ bstring' = [mem |-> mem,
                       units |-> BStringCopy(BStringAllocate(Len(str), data), str),
                       str |-> str]
    /\ lastOp' = BStringOp("Create", str, "string", <<>>)
    /\ UNCHANGED <<ndebug, m_heaps, m_currentHeapIter, live, status, refCounted>>

\* BString::Create(str) where std::malloc returns null: Allocate returns
\* an empty Ref and Create copies str to the GetData() of a null pointer,
\* which nothing defines; an empty str copies nothing and the empty Ref
\* is returned, any other dies or goes on
BStringCreateNull(str) ==
    /\ CanCall
    /\ bstring = NoBString
    /\ NULL \in Malloc(sysmem, BStringBlockSize(Len(str)))
    /\ \E res \in (IF str = <<>> THEN {"null"} ELSE {"null", "abort"}) :
        /\ status' = IF res = "abort" THEN "aborted" ELSE status
        /\ lastOp' = BStringOp("Create", str, res, <<>>)
    /\ UNCHANGED <<ndebug, sysmem, m_heaps, m_currentHeapIter, live, refCounted, bstring>>

BStringGetLength ==
    /\ CanCall
    /\ bstring # NoBString
    /\ lastOp' = BStringOp("GetLength", bstring.str, "length", GetLength(bstring))
    /\ UNCHANGED <<ndebug, sysmem, m_heaps, m_currentHeapIter, live, status, refCounted,
                   bstring>>

\* GetView(), and a reader that reads every code unit of the view
BStringGetView ==
    /\ CanCall
    /\ bstring # NoBString
    /\ \E view \in GetView(bstring) :
        lastOp' = BStringOp("GetView", bstring.str, "view", view)
    /\ UNCHANGED <<ndebug, sysmem, m_heaps, m_currentHeapIter, live, status, refCounted,
                   bstring>>

\* the reader of the view dies on a code unit past the end of the block
BStringGetViewFault ==
    /\ CanCall
    /\ bstring # NoBString
    /\ ViewOverrunsBlock(bstring)
    /\ status' = "aborted"
    /\ lastOp' = BStringOp("GetView", bstring.str, "abort", <<>>)
    /\ UNCHANGED <<ndebug, sysmem, m_heaps, m_currentHeapIter, live, refCounted, bstring>>

\* BString::Free: std::free(GetMemoryBlock())
BStringFree ==
    /\ CanCall
    /\ bstring # NoBString
    /\ sysmem' = StdFree(sysmem, bstring.mem)
    /\ bstring' = NoBString
    /\ lastOp' = BStringOp("Free", bstring.str, "done", <<>>)
    /\ UNCHANGED <<ndebug, m_heaps, m_currentHeapIter, live, status, refCounted>>

NextBString ==
    \/ \E str \in Strings : BStringCreate(str)
    \/ \E str \in Strings : BStringCreateNull(str)
    \/ BStringGetLength
    \/ BStringGetView
    \/ BStringGetViewFault
    \/ BStringFree

SpecBString == Init /\ [][NextBString]_vars

TypeOK ==
    /\ ndebug \in BOOLEAN
    /\ status \in {"running", "aborted", "destroyed"}
    /\ m_currentHeapIter \in {SINGULAR} \cup 1..MaxSegments
    /\ Len(m_heaps) <= MaxSegments
    /\ BagCardinality(live) <= MaxFill

(***************************************************************************)
(* Properties.                                                             *)
(***************************************************************************)
LiveHandles == BagToSet(live)

\* two handles the caller holds at once: two different handles, or one
\* handle value issued twice
HeldTogether(h1, h2) == h1 # h2 \/ CopiesIn(h1, live) >= 2

IsSegmentHandle(h) == h.m_heapIter # END /\ h.m_block # NULL

\* the byte ranges [m_block, m_block + size) of two handles intersect
RangesOverlap(h1, h2) ==
    /\ h1.m_block < h2.m_block + h2.size
    /\ h2.m_block < h1.m_block + h1.size

\* C1: No overlap.  Two live allocations of the same segment never have
\* overlapping byte ranges, and never the same pointer.
C1_NoOverlap ==
    \A h1, h2 \in LiveHandles :
        (/\ IsSegmentHandle(h1) /\ IsSegmentHandle(h2)
         /\ h1.m_heapIter = h2.m_heapIter
         /\ HeldTogether(h1, h2))
        => (~RangesOverlap(h1, h2) /\ h1.m_block # h2.m_block)

\* C2: Handle validity.  The block behind every live handle is still
\* allocated: it is outstanding at the system allocator and no other live
\* handle has been given it.
C2_HandleValid ==
    \A h \in LiveHandles :
        h.m_block # NULL =>
            /\ IsOutstanding(sysmem, h.m_block)
            /\ \A g \in LiveHandles : HeldTogether(h, g) => g.m_block # h.m_block

\* C3: Threshold routing.  A request larger than a quarter of the segment
\* size is served by the fallback path only (no segment is probed or
\* created, the handle carries end() and its block is the system
\* allocator's); a request of at most a quarter is never given a fallback
\* handle.
C3_ThresholdRouting ==
    lastOp.op = "Allocate" =>
        /\ lastOp.size > SegmentSize \div 4 =>
            /\ lastOp.path = "fallback"
            /\ lastOp.res \in {"handle", "oom"}
            /\ lastOp.probes = <<>> /\ lastOp.created = 0
            /\ lastOp.res = "handle" =>
                /\ lastOp.handle.m_heapIter = END
                /\ MallocBlock(lastOp.handle.m_block, lastOp.size) \in sysmem
        /\ lastOp.size <= SegmentSize \div 4 =>
            /\ lastOp.path # "fallback"
            /\ lastOp.res = "handle" => lastOp.handle.m_heapIter \in 1..Len(m_heaps)

\* a request above the threshold was served from the system allocator
\* although a segment exists
C3_Witness ==
    /\ lastOp.op = "Allocate" /\ lastOp.res = "handle"
    /\ lastOp.size = SegmentSize \div 4 + 1
    /\ lastOp.handle.m_heapIter = END
    /\ m_heaps # <<>>

\* C4: Growth places the request in the new segment.  When every existing
\* segment refused and a new segment was created, the call returns a block
\* and the handle references the new segment.
C4_GrowthInNewSegment ==
    (lastOp.op = "Allocate" /\ lastOp.path = "grow" /\ lastOp.res # "oom") =>
        /\ lastOp.res = "handle"
        /\ lastOp.handle.m_block # NULL
        /\ lastOp.handle.m_heapIter = Len(m_heaps)

\* C5: Allocation failure is never a null handle.  No call of Allocate
\* returns a handle that carries a null pointer.
C5_NeverNullHandle ==
    (lastOp.op = "Allocate" /\ lastOp.res = "handle") => lastOp.handle.m_block # NULL

\* C6: Round-robin progress.  After a successful segment-path allocation
\* the cursor is the segment that served it (the one probed last, the one
\* in the handle), and a segment-path Allocate on a heap that has segments
\* makes its first probe at the cursor.
C6_CursorAtServer ==
    (lastOp.op = "Allocate" /\ lastOp.res = "handle" /\ lastOp.path # "fallback") =>
        /\ m_currentHeapIter = lastOp.handle.m_heapIter
        /\ m_currentHeapIter = lastOp.probes[Len(lastOp.probes)]

C6_FirstProbeAtCursor ==
    (lastOp'.op = "Allocate" /\ lastOp'.probes # <<>> /\ m_heaps # <<>>) =>
        lastOp'.probes[1] = m_currentHeapIter

\* C6: both halves of round-robin progress, in every state and every step
C6_RoundRobinProgress == [](C6_CursorAtServer) /\ [][C6_FirstProbeAtCursor]_vars

\* segment 2 served a request whose first probe, at segment 1, was refused
C6_Witness ==
    /\ lastOp.op = "Allocate" /\ lastOp.res = "handle" /\ lastOp.path = "probe"
    /\ lastOp.probes = <<1, 2>>
    /\ m_currentHeapIter = 2

\* C7: Free of a segment handle.  Free of a live segment handle completes,
\* having freed the handle's block, and leaves the cursor at the handle's
\* segment.
C7_FreeDispatch ==
    (lastOp.op = "Free" /\ lastOp.handle.m_heapIter # END) =>
        /\ lastOp.res = "done"
        /\ m_currentHeapIter = lastOp.handle.m_heapIter

\* C8: Monotonic segment count.  No step shortens m_heaps or replaces a
\* segment, and a Free leaves m_heaps as it was.
C8_MonotonicSegments ==
    [][/\ Len(m_heaps') >= Len(m_heaps)
       /\ SubSeq(m_heaps', 1, Len(m_heaps)) = m_heaps
       /\ lastOp'.op = "Free" => m_heaps' = m_heaps]_vars

\* a handle of the second segment was freed and both segments are there
C8_Witness ==
    /\ lastOp.op = "Free" /\ lastOp.res = "done"
    /\ lastOp.handle.m_heapIter = 2
    /\ Len(m_heaps) = 2

\* the bytes asked for by the handles in hs, each counted as often as held
RECURSIVE SumSizes(_)
SumSizes(hs) ==
    IF hs = {} THEN 0
    ELSE LET h == CHOOSE x \in hs : TRUE
         IN h.size * CopiesIn(h, live) + SumSizes(hs \ {h})

LiveIn(i) == {h \in LiveHandles : h.m_heapIter = i /\ h.m_block # NULL}

\* C9: Segment capacity is bounded.  The live allocations placed in one
\* segment never add up to more than the segment size.
C9_SegmentCapacity ==
    \A i \in 1..Len(m_heaps) : SumSizes(LiveIn(i)) <= SegmentSize

\* C12: Cursor validity.  Whenever m_heaps is not empty the cursor is one
\* of its segments, and so was every position the last call probed.
C12_CursorValid ==
    m_heaps # <<>> =>
        /\ m_currentHeapIter \in 1..Len(m_heaps)
        /\ \A i \in DOMAIN lastOp.probes : lastOp.probes[i] \in 1..Len(m_heaps)

\* the probe loop went past the last segment and wrapped to the first
C12_Witness ==
    /\ lastOp.op = "Allocate" /\ lastOp.res = "handle"
    /\ lastOp.probes = <<2, 1>>
    /\ m_currentHeapIter = 1
    /\ Len(m_heaps) = 2

\* C13: All-or-nothing failure.  An Allocate that signals out-of-memory
\* leaves the segment collection, the cursor and the live allocations as
\* they were before the call.
C13_AllOrNothing ==
    [][(lastOp'.op = "Allocate" /\ lastOp'.res = "oom") =>
        /\ m_heaps' = m_heaps
        /\ m_currentHeapIter' = m_currentHeapIter
        /\ live' = live]_vars

\* C14: Out-of-memory is the only failure surfaced.  Every Allocate
\* returns a handle or signals out-of-memory, and signals it only where
\* the system allocator refused segment storage or a fallback block; a
\* segment that refuses never aborts the call.
C14_OnlyOutOfMemory ==
    lastOp.op = "Allocate" =>
        /\ lastOp.res \in {"handle", "oom"}
        /\ lastOp.res = "oom" => lastOp.path \in {"fallback", "create", "grow"}

\* C15: Destruction releases every segment.  The destructor completes,
\* having released the storage of every segment once (each m_data was
\* outstanding when it was freed and is not afterwards); a heap without
\* segments and handles leaves no block outstanding.
C15_DestroyReleasesOnce ==
    lastOp.op = "Destroy" =>
        /\ lastOp.res = "done"
        /\ lastOp.path = "once"
        /\ \A i \in 1..Len(m_heaps) : ~IsOutstanding(sysmem, m_heaps[i].m_data)
        /\ (m_heaps = <<>> /\ live = EmptyBag) => sysmem = {}

\* C16: Allocate returns memory inside its region.  A block returned by a
\* segment's Allocate lies within [m_data, m_data + m_size) of that segment.
C16_InsideRegion ==
    (/\ lastOp.op = "Allocate" /\ lastOp.res = "handle"
     /\ lastOp.path # "fallback" /\ lastOp.handle.m_block # NULL) =>
        LET seg == m_heaps[lastOp.handle.m_heapIter]
        IN /\ seg.m_data <= lastOp.handle.m_block
           /\ lastOp.handle.m_block + lastOp.size <= seg.m_data + seg.m_size

\* C17: Over-capacity requests are refused.  Allocate of more than the
\* region's size returns null.
C17_OverCapacityRefused ==
    (lastOp.op = "HeapAllocate" /\ lastOp.size > m_heaps[1].m_size) =>
        lastOp.res = "null"

\* C18: Zero-size allocation.  Allocate(0) returns a block that is not
\* null and whose pointer no other live allocation of the region has.
C18_ZeroSizeDistinct ==
    (lastOp.op = "HeapAllocate" /\ lastOp.size = 0) =>
        /\ lastOp.res = "block"
        /\ lastOp.handle.m_block # NULL
        /\ \A g \in LiveHandles :
            HeldTogether(lastOp.handle, g) => g.m_block # lastOp.handle.m_block

\* C19: Alignment.  The pointer of every segment handle, whatever the
\* request size, is 0 modulo 4.
C19_Aligned ==
    /\ \A h \in LiveHandles : h.m_heapIter # END => h.m_block % 4 = 0
    /\ (lastOp.op = "Allocate" /\ lastOp.res = "handle" /\ lastOp.path # "fallback") =>
        lastOp.handle.m_block % 4 = 0

\* segment blocks of size zero and of the largest segment-path size are held
C19_Witness ==
    \E h1, h2 \in LiveHandles :
        /\ IsSegmentHandle(h1) /\ IsSegmentHandle(h2)
        /\ h1.size = 0 /\ h2.size = SegmentSize \div 4

\* C20: Dereference is a pure read.  A call of Dereference on a handle the
\* caller holds returns the handle's m_block and changes nothing of the
\* handle or of the heap.
C20_DereferencePure ==
    [][lastOp'.op = "Dereference" =>
        /\ BagIn(lastOp'.handle, live)
        /\ lastOp'.value = lastOp'.handle.m_block
        /\ UNCHANGED <<sysmem, m_heaps, m_currentHeapIter, live, status>>]_vars

\* a segment handle was read after its segment had served another request
C20_Witness ==
    /\ lastOp.op = "Dereference"
    /\ lastOp.handle.m_heapIter = 1 /\ lastOp.value # NULL
    /\ lastOp.value = lastOp.handle.m_block
    /\ BagCardinality(live) = 2

\* no segment occurs twice in the sequence of probes s
NoRepeat(s) == \A i, j \in DOMAIN s : i # j => s[i] # s[j]

\* the segments that existed while the call in op ran its probe loop: the
\* segment a growing call appends is created after the loop
LoopSegments(op, heaps) ==
    IF op.path = "grow" /\ op.res = "handle" THEN Len(heaps) - 1 ELSE Len(heaps)

\* C21: Probe order and termination.  A segment-path Allocate calls the
\* segments' Allocate starting at the cursor, each next call at the next
\* segment of the list (the first one after the last), the call that
\* returns a block is the last one, no segment is called twice in one call
\* of Allocate and the calls are no more than there are segments.
C21_ProbeOrder ==
    [][(lastOp'.op = "Allocate" /\ lastOp'.probes # <<>>) =>
        LET p == lastOp'.probes
            n == LoopSegments(lastOp', m_heaps')
        IN /\ m_heaps # <<>> => p[1] = m_currentHeapIter
           /\ \A i \in 1..(Len(p) - 1) : p[i + 1] = (IF p[i] = n THEN 1 ELSE p[i] + 1)
           /\ lastOp'.res = "handle" => lastOp'.handle.m_heapIter = p[Len(p)]
           /\ NoRepeat(p)
           /\ Len(p) <= Len(m_heaps')]_vars

\* C22: Growth only on exhaustion and by one.  A call appends at most one
\* segment, and appends only in a segment-path Allocate in which every
\* segment that existed at the start of the call was probed and refused
\* (or none existed).
C22_GrowthByOne ==
    [][/\ Len(m_heaps') <= Len(m_heaps) + 1
       /\ Len(m_heaps') > Len(m_heaps) =>
            /\ lastOp'.op = "Allocate"
            /\ lastOp'.size <= SegmentSize \div 4
            /\ m_heaps # <<>> =>
                /\ lastOp'.path = "grow"
                /\ Len(lastOp'.probes) >= Len(m_heaps)
                /\ \A i \in 1..Len(m_heaps) :
                    \E j \in 1..Len(m_heaps) : lastOp'.probes[j] = i]_vars

\* the handles of segment blocks among the handles in bag
SegmentHandles(bag) == {h \in BagToSet(bag) : h.m_heapIter # END}

\* C23: Fallback path leaves segments and cursor unchanged.  An Allocate
\* on the fallback path and a Free of a fallback handle leave m_heaps, the
\* cursor and the segment handles the caller holds as they were; after the
\* Free the handle's block is not outstanding at the system allocator and
\* no other block was released.
C23_FallbackFrame ==
    [][(lastOp'.op \in {"Allocate", "Free"} /\ lastOp'.path = "fallback") =>
        /\ m_heaps' = m_heaps
        /\ m_currentHeapIter' = m_currentHeapIter
        /\ SegmentHandles(live') = SegmentHandles(live)
        /\ \A h \in SegmentHandles(live) : CopiesIn(h, live') = CopiesIn(h, live)
        /\ lastOp'.op = "Free" =>
            /\ ~IsOutstanding(sysmem', lastOp'.handle.m_block)
            /\ sysmem' = StdFree(sysmem, lastOp'.handle.m_block)]_vars

\* a fallback block was freed while a segment exists, the cursor is at it
\* and a handle of the segment is held
C23_Witness ==
    /\ lastOp.op = "Free" /\ lastOp.path = "fallback" /\ lastOp.res = "done"
    /\ Len(m_heaps) = 2 /\ m_currentHeapIter = 2
    /\ SegmentHandles(live) # {}

\* the segments whose Allocate returned null in the call op
Refused(op) ==
    IF op.op # "Allocate" \/ op.probes = <<>> THEN {}
    ELSE IF op.path = "probe" /\ op.res = "handle"
    THEN {op.probes[i] : i \in 1..(Len(op.probes) - 1)}
    ELSE IF op.path = "grow" /\ op.res = "handle"
    THEN {op.probes[i] : i \in 1..(Len(op.probes) - 1)}
    ELSE {op.probes[i] : i \in 1..Len(op.probes)}

\* C24: Full segments are retired from search.  An Allocate that follows
\* an Allocate, with no Free in between, probes none of the segments that
\* refused in the earlier call.
C24_RefusedNotProbed ==
    [][(lastOp.op = "Allocate" /\ lastOp'.op = "Allocate") =>
        \A i \in DOMAIN lastOp'.probes : lastOp'.probes[i] \notin Refused(lastOp)]_vars

\* C25: The fallback tag is stable.  Free takes its fallback branch for
\* exactly the handles that the fallback path issued (those of requests
\* above a quarter of the segment size), however many segments were
\* created since.
C25_FallbackTagStable ==
    lastOp.op = "Free" =>
        (lastOp.path = "fallback" <=> lastOp.handle.size > SegmentSize \div 4)

\* a fallback handle was freed on the fallback branch with two segments in
\* the list, and a segment handle is still held
C25_Witness ==
    /\ lastOp.op = "Free" /\ lastOp.path = "fallback"
    /\ lastOp.handle.size > SegmentSize \div 4
    /\ Len(m_heaps) = 2
    /\ \E h \in LiveHandles : h.m_heapIter = 2

\* C26: No block is released twice.  The block of a handle passed to Free
\* is still outstanding at the system allocator when Free releases it.
C26_ReleasedOnce ==
    [][(lastOp'.op = "Free" /\ lastOp'.handle.m_block # NULL) =>
        IsOutstanding(sysmem, lastOp'.handle.m_block)]_vars

\* C27: The allocation record matches the live blocks.  Between calls,
\* the m_allocations that the next call on a segment works with holds
\* exactly the blocks of the segment that the caller has not freed.
C27_RecordMatchesLive ==
    \A i \in 1..Len(m_heaps) :
        GetHeapBase(m_heaps[i]).m_allocations = {h.m_block : h \in LiveIn(i)}

\* C28: Initialize once per region.  For every segment of the list,
\* whatever calls of Allocate and Free were made, Initialize() has been
\* called once, and no step calls it again.
C28_InitializedOnce ==
    /\ [](\A i \in 1..Len(m_heaps) : m_heaps[i].initialized = 1)
    /\ [][\A i \in 1..Len(m_heaps) : m_heaps'[i].initialized = m_heaps[i].initialized]_vars

\* a block of the second segment was freed while another block of it is
\* held
C28_Witness ==
    /\ lastOp.op = "Free" /\ lastOp.path = "segment" /\ lastOp.res = "done"
    /\ lastOp.handle.m_heapIter = 2
    /\ LiveIn(2) # {}
    /\ m_heaps[2].initialized = 1

\* C29: RegionAllocator failure is a null return.  A call of the region's
\* Allocate returns a block or null and never aborts, and a call that
\* returns null leaves nothing in the record of the HeapBase it ran on.
C29_FailureIsNull ==
    lastOp.op = "HeapAllocate" =>
        /\ lastOp.res \in {"block", "null"}
        /\ lastOp.res = "null" =>
            HeapBaseInsert(GetHeapBase(m_heaps[1]), lastOp.handle.m_block).m_allocations = {}

\* C30: RefCounted lifetime under concurrency.  Before any call the count
\* is 1; in every state the count is not negative, the destructor has run
\* at most once, the count is 0 exactly when the destructor has run or the
\* thread whose Release brought the count to 0 is about to run it, and no
\* AddRef or Release has accessed the count after the destructor ran.
C30_RefCountedLifetime ==
    /\ lastOp.op = "none" => refCounted.m_refCount = 1
    /\ refCounted.m_refCount >= 0
    /\ refCounted.deleted <= 1
    /\ refCounted.m_refCount = 0 <=>
        (refCounted.deleted = 1 \/ \E t \in Threads : refCounted.pc[t] = "delete")
    /\ Cardinality({t \in Threads : refCounted.pc[t] = "delete"}) <= 1
    /\ ~refCounted.touched

\* the object was destroyed by thread 2, which released the last of the
\* references after thread 1 had released its own
C30_Witness ==
    /\ lastOp.op = "Delete" /\ lastOp.thread = 2
    /\ refCounted.deleted = 1
    /\ refCounted.m_refCount = 0

\* C31: BString round trip.  For the BString that Create(s) returned, the
\* memory block holds a null code unit right after the code units of s,
\* GetLength() returns the number of code units of s, and GetView()
\* returns s and reads nothing past the block.
C31_RoundTrip ==
    /\ bstring # NoBString =>
        /\ SubSeq(bstring.units, 3, 2 + Len(bstring.str)) = bstring.str
        /\ bstring.units[3 + Len(bstring.str)] = 0
    /\ lastOp.op = "GetLength" => lastOp.value = Len(lastOp.str)
    /\ lastOp.op = "GetView" => (lastOp.res = "view" /\ lastOp.value = lastOp.str)
====
